---- MODULE Spec2Model ----
(***************************************************************************)
(* Order processing of the fish delivery API: order creation with stock    *)
(* reservation (routes/orders.js POST /), order numbering                  *)
(* (Order.generateOrderNumber) and the order status state machine          *)
(* (Order.updateStatus, routes/orders.js PUT /:id).                        *)
(*                                                                         *)
(* Every request is a process; each `await` of a handler is a point where  *)
(* other requests may run, so a handler is one action per awaited database *)
(* operation together with the synchronous code that follows it.           *)
(*                                                                         *)
(* Quantities, stock and money are fixed-point numbers: a quantity n       *)
(* stands for n/QtyUnit kg, a price p*n for p*n/QtyUnit currency units.    *)
(***************************************************************************)
EXTENDS Integers, Sequences, FiniteSets, TLC

\* ------------------------------------------------------------------ bounds
QtyUnit == 2        \* fixed-point resolution: units per kilogram
MaxQty == 3         \* largest quantity of a request line, in units
MaxStockKg == 2     \* largest initial stock of a fish, in whole kilograms
MaxItems == 2       \* most lines of a creation request
NumClients == 2     \* concurrent creation requests
NumAdmins == 2      \* concurrent status-update requests
MaxUpdates == 4     \* status-update requests issued in one behaviour
MaxFaults == 1      \* database operations that reject in one behaviour
NumSockets == 2     \* socket.io clients
MaxSmallDay == 3    \* orders of a day that has just begun
TailStart == 9997   \* first order shown of a day with thousands of orders
TailLen == 5        \* sequence numbers from TailStart on that may exist
MaxEarlier == 2     \* orders of the day before
MaxConnects == 6    \* calls of SocketManager.connect()
MaxMounts == 2      \* times the tracking effect is run
MaxDrops == 1       \* connections the tracking socket loses
MaxPage == 2        \* pages asked of the order listing
MaxPageSize == 2    \* page sizes asked of the order listing

\* ------------------------------------------------------- program constants
MinItems == 1               \* isArray({ min: 1, max: 10 })
MaxOrderItems == 10
MinAddress == 10            \* isLength({ min: 10, max: 200 })
MaxAddress == 200
MaxLimit == 100
maxReconnectAttempts == 5
PadWidth == 4               \* padStart(4, '0')
Radix == 10                 \* Number.prototype.toString(), parseInt

Clients == 1..NumClients
Admins == 1..NumAdmins
Sockets == 1..NumSockets

\* Fish documents of the catalog, and a well-formed id of no document.
Catalog == {"A", "B"}
FishIds == Catalog \cup {"Z"}
pricePerKg == [f \in Catalog |-> IF f = "A" THEN 800 ELSE 600]

Statuses == {"pending", "processing", "shipped", "delivered", "cancelled"}

\* The day of `new Date()`; every request of a behaviour runs on this day.
dateStr == "20231201"
earlierDate == "20231130"

\* Delivery addresses of a request body, by their trimmed length.
Addresses == {"", "456 New Street, Nairobi, Kenya"}
AddressLength(a) == IF a = "" THEN 0 ELSE 30
UserAddress(user) == "123 Client Street, Nairobi, Kenya"

VARIABLES
  stock,      \* Fish.stock of each catalog document, in units
  isActive,   \* Fish.isActive of each catalog document
  initStock,  \* the stock the behaviour started with (never written)
  orders,     \* the Order collection, in insertion order; _id = position
  creq,       \* local state of each POST /api/orders request
  ureq,       \* local state of each PUT /api/orders/:id request
  published,  \* socket.io emits so far: <<room, payload>>
  nUpdates,   \* PUT requests issued so far
  faults,     \* database operations that rejected so far
  connected,  \* the sockets that are connected
  rooms,      \* the rooms each socket is in
  received,   \* per subscriber: the publications it was sent, by index
  rres,       \* the response to the last GET /api/orders or /api/orders/:id
  tracked,    \* OrderTracking: currentOrder._id while mounted, else 0
  tconn,      \* OrderTracking: what has become of the socket of the effect
  tqueue,     \* OrderTracking: control messages sent, not yet handled
  tseen,      \* OrderTracking: events handed to the orderUpdate handler
  shown,      \* OrderTracking: currentOrder.status
  nMounts,    \* OrderTracking: effects run so far
  nDrops,     \* OrderTracking: connections lost so far
  socket,     \* SocketManager.socket: "null", or the state of the socket
  isConnected,        \* SocketManager.isConnected
  reconnectAttempts,  \* SocketManager.reconnectAttempts
  nConnects   \* SocketManager: calls of connect() so far

notifier == <<connected, rooms, received>>
tracker == <<tracked, tconn, tqueue, tseen, shown, nMounts, nDrops>>
manager == <<socket, isConnected, reconnectAttempts, nConnects>>
clientSide == <<rres, tracker, manager>>
vars == <<stock, isActive, initStock, orders, creq, ureq, published, nUpdates, faults,
          connected, rooms, received, rres, tracked, tconn, tqueue, tseen, shown,
          nMounts, nDrops, socket, isConnected, reconnectAttempts, nConnects>>

\* ------------------------------------------------------------ pure helpers
RECURSIVE SumSeq(_)
SumSeq(s) == IF s = <<>> THEN 0 ELSE s[1] + SumSeq(Tail(s))

\* sequence.toString(): the decimal digits, most significant first
RECURSIVE ToDigits(_)
ToDigits(n) == IF n < Radix THEN <<n>> ELSE Append(ToDigits(n \div Radix), n % Radix)

\* String.prototype.padStart(width, '0'): never truncates
PadStart(s, width) ==
  IF Len(s) >= width THEN s
  ELSE [i \in 1..width |-> IF i <= width - Len(s) THEN 0 ELSE s[i - (width - Len(s))]]

\* parseInt of a string of decimal digits
RECURSIVE ParseInt(_)
ParseInt(s) ==
  IF s = <<>> THEN 0 ELSE ParseInt(SubSeq(s, 1, Len(s) - 1)) * Radix + s[Len(s)]

\* string comparison of two digit strings, as the sort on orderNumber does
RECURSIVE StrLess(_, _)
StrLess(a, b) ==
  IF a = <<>> THEN b # <<>>
  ELSE IF b = <<>> THEN FALSE
  ELSE IF a[1] # b[1] THEN a[1] < b[1]
  ELSE StrLess(Tail(a), Tail(b))

OrderSet(coll) == {coll[k] : k \in 1..Len(coll)}

\* findOne({orderNumber: /^ORD-<dateStr>-/}).sort({orderNumber: -1})
LastOrderOfDay(coll, date) ==
  LET todays == {o \in OrderSet(coll) : o.orderNumber.date = date}
  IN  {o \in todays : \A p \in todays : ~StrLess(o.orderNumber.seq, p.orderNumber.seq)}

generateOrderNumber(coll, date) ==
  LET last == LastOrderOfDay(coll, date)
      sequence == IF last = {} THEN 1
                  ELSE ParseInt((CHOOSE o \in last : TRUE).orderNumber.seq) + 1
  IN  [date |-> date, seq |-> PadStart(ToDigits(sequence), PadWidth)]

\* A mutant of hasStock: the last available unit cannot be ordered.
hasStockStrict(fishStock, requiredQuantity) == fishStock > requiredQuantity

hasStock(fishStock, requiredQuantity) == fishStock >= requiredQuantity

\* A mutant of fishUnavailable: a soft-deleted fish is still sold.
fishUnavailableIgnoringActive(fishId, active) == fishId \notin Catalog

\* !fish || !fish.isActive, for the document Fish.findById(fishId) resolves to
fishUnavailable(fishId, active) == fishId \notin Catalog \/ ~active[fishId]

\* A mutant of ValidationErrors: isArray without the max option.
ValidationErrorsNoMax(body) ==
  (IF Len(body.items) >= MinItems THEN {} ELSE {"items"})
  \cup (IF \E k \in 1..Len(body.items) : body.items[k].quantity < 1 * QtyUnit
          THEN {"items.quantity"} ELSE {})
  \cup (IF AddressLength(body.deliveryAddress) >= MinAddress
          /\ AddressLength(body.deliveryAddress) <= MaxAddress
          THEN {} ELSE {"deliveryAddress"})

\* createOrderValidation: the fields express-validator reports.  Every id of
\* FishIds is a well-formed ObjectId.
ValidationErrors(body) ==
  (IF Len(body.items) >= MinItems /\ Len(body.items) <= MaxOrderItems
     THEN {} ELSE {"items"})
  \cup (IF \E k \in 1..Len(body.items) : body.items[k].quantity < 1 * QtyUnit
          THEN {"items.quantity"} ELSE {})
  \cup (IF AddressLength(body.deliveryAddress) >= MinAddress
          /\ AddressLength(body.deliveryAddress) <= MaxAddress
          THEN {} ELSE {"deliveryAddress"})

\* orderSchema.methods.calculateTotal: recomputes every subtotal and the total
calculateTotalItems(items) ==
  [k \in 1..Len(items) |->
     [items[k] EXCEPT !.subtotal = items[k].quantity * items[k].pricePerKg]]

\* A mutant of calculateTotal: the reduce starts at the first subtotal and
\* adds every subtotal to it.
calculateTotalDrift(items) ==
  calculateTotalItems(items)[1].subtotal
    + SumSeq([k \in 1..Len(items) |-> calculateTotalItems(items)[k].subtotal])

calculateTotal(items) ==
  SumSeq([k \in 1..Len(items) |-> calculateTotalItems(items)[k].subtotal])

\* ------------------------------------------------------------------ inputs
Lines == [fishId : FishIds, quantity : 1..MaxQty]
\* an item list of one more line than createOrderValidation admits
TooManyItems == {[k \in 1..(MaxOrderItems + 1) |-> l] : l \in Lines}
ItemLists == UNION {[1..n -> Lines] : n \in 0..MaxItems} \cup TooManyItems
Bodies == [items : ItemLists, deliveryAddress : Addresses]

NoDetail == [fishId |-> "", available |-> 0, requested |-> 0]

IdleCreate ==
  [pc |-> "idle", items |-> <<>>, deliveryAddress |-> "", i |-> 0,
   orderItems |-> <<>>, totalPrice |-> 0,
   orderNumber |-> [date |-> "", seq |-> <<>>], orderId |-> 0, applied |-> <<>>,
   code |-> 0, error |-> "", fields |-> {}, detail |-> NoDetail]

IdleUpdate ==
  [pc |-> "idle", orderId |-> 0, status |-> "", adminNotes |-> "",
   from |-> "", saved |-> FALSE, code |-> 0, error |-> "", message |-> <<>>]

\* no read has been answered
NoRead ==
  [user |-> <<"", 0>>, kind |-> "", id |-> 0, status |-> "", code |-> 0,
   orders |-> <<>>, totalItems |-> 0]

InitClientSide ==
  /\ rres = NoRead
  /\ tracked = 0
  /\ tconn = "none"
  /\ tqueue = <<>>
  /\ tseen = 0
  /\ shown = ""
  /\ nMounts = 0
  /\ nDrops = 0
  /\ socket = "null"
  /\ isConnected = FALSE
  /\ reconnectAttempts = 0
  /\ nConnects = 0

InitStocks == {QtyUnit * k : k \in 1..MaxStockKg}

Init ==
  /\ stock \in [Catalog -> InitStocks]
  /\ initStock = stock
  /\ isActive \in {f \in [Catalog -> BOOLEAN] : f["A"]}
  /\ orders = <<>>
  /\ creq = [r \in Clients |-> IdleCreate]
  /\ ureq = [u \in Admins |-> IdleUpdate]
  /\ published = <<>>
  /\ nUpdates = 0
  /\ faults = 0
  /\ connected = {}
  /\ rooms = [s \in Sockets |-> {}]
  /\ received = [s \in Sockets |-> <<>>]
  /\ InitClientSide

\* ------------------------------------------------- POST /api/orders
\* The request arrives: validationResult, then the body is destructured and
\* the first Fish.findById is issued.
CreateBegin(r, body) ==
  /\ creq[r].pc = "idle"
  /\ IF ValidationErrors(body) # {}
       THEN creq' = [creq EXCEPT ![r] =
              [@ EXCEPT !.pc = "done", !.code = 400, !.error = "ValidationError",
                        !.fields = ValidationErrors(body)]]
       ELSE creq' = [creq EXCEPT ![r] =
              [@ EXCEPT !.pc = "findFish", !.items = body.items,
                        !.deliveryAddress = body.deliveryAddress, !.i = 1]]
  /\ UNCHANGED <<stock, isActive, initStock, orders, ureq, published, nUpdates, faults, notifier, clientSide>>

\* Fish.findById(item.fishId) resolves; the loop body runs up to the next await.
CreateFindFish(r) ==
  LET q == creq[r]
      item == q.items[q.i]
      subtotal == item.quantity * pricePerKg[item.fishId]
  IN
  /\ q.pc = "findFish"
  /\ IF fishUnavailable(item.fishId, isActive)
       THEN creq' = [creq EXCEPT ![r] =
              [@ EXCEPT !.pc = "done", !.code = 404, !.error = "SkuNotFound",
                        !.detail = [NoDetail EXCEPT !.fishId = item.fishId]]]
       ELSE IF ~hasStock(stock[item.fishId], item.quantity)
       THEN creq' = [creq EXCEPT ![r] =
              [@ EXCEPT !.pc = "done", !.code = 400, !.error = "InsufficientStock",
                        !.detail = [fishId |-> item.fishId,
                                    available |-> stock[item.fishId],
                                    requested |-> item.quantity]]]
       ELSE creq' = [creq EXCEPT ![r] =
              [@ EXCEPT !.orderItems = Append(@,
                           [fishId |-> item.fishId, quantity |-> item.quantity,
                            pricePerKg |-> pricePerKg[item.fishId],
                            subtotal |-> subtotal]),
                        !.totalPrice = @ + subtotal,
                        !.i = @ + 1,
                        !.pc = IF q.i = Len(q.items) THEN "generate" ELSE "findFish"]]
  /\ UNCHANGED <<stock, isActive, initStock, orders, ureq, published, nUpdates, faults, notifier, clientSide>>

\* generateOrderNumber's findOne resolves; new Order(...) and order.save() is issued.
CreateGenerate(r) ==
  /\ creq[r].pc = "generate"
  /\ creq' = [creq EXCEPT ![r] =
       [@ EXCEPT !.pc = "save", !.orderNumber = generateOrderNumber(orders, dateStr)]]
  /\ UNCHANGED <<stock, isActive, initStock, orders, ureq, published, nUpdates, faults, notifier, clientSide>>

\* order.save(): the pre('save') hook recomputes the totals, then the insert,
\* which the unique index on orderNumber rejects for a number already stored.
CreateSave(r) ==
  LET q == creq[r]
      doc == [userId |-> r, orderNumber |-> q.orderNumber,
              items |-> calculateTotalItems(q.orderItems),
              totalPrice |-> calculateTotal(q.orderItems),
              deliveryAddress |-> IF q.deliveryAddress # "" THEN q.deliveryAddress
                                  ELSE UserAddress(r),
              status |-> "pending", paymentStatus |-> "pending",
              adminNotes |-> "", actualDelivery |-> FALSE]
  IN
  /\ q.pc = "save"
  /\ IF \E o \in OrderSet(orders) : o.orderNumber = q.orderNumber
       THEN /\ creq' = [creq EXCEPT ![r] =
                 [@ EXCEPT !.pc = "done", !.code = 500, !.error = "DuplicateKey"]]
            /\ UNCHANGED orders
       ELSE /\ orders' = Append(orders, doc)
            /\ creq' = [creq EXCEPT ![r] =
                 [@ EXCEPT !.pc = "decrement", !.orderId = Len(orders) + 1, !.i = 1]]
  /\ UNCHANGED <<stock, isActive, initStock, ureq, published, nUpdates, faults, notifier, clientSide>>

\* A mutant of IncStock: the decrement takes one kilogram whatever the line asks.
IncStockOneKg(stk, fishId, quantity) == [stk EXCEPT ![fishId] = @ - 1 * QtyUnit]

\* {$inc: {stock: -item.quantity}} applied to one Fish document
IncStock(stk, fishId, quantity) == [stk EXCEPT ![fishId] = @ - quantity]

\* Fish.findByIdAndUpdate(item.fishId, {$inc: {stock: -item.quantity}}): one
\* atomic update without validators, for the next line of the request.
CreateDecrement(r) ==
  LET q == creq[r]
      item == q.items[q.i]
  IN
  /\ q.pc = "decrement"
  /\ stock' = IncStock(stock, item.fishId, item.quantity)
  /\ creq' = [creq EXCEPT ![r] =
       [@ EXCEPT !.applied = Append(@, item), !.i = @ + 1,
                 !.pc = IF q.i = Len(q.items) THEN "populate" ELSE "decrement"]]
  /\ UNCHANGED <<isActive, initStock, orders, ureq, published, nUpdates, faults, notifier, clientSide>>

\* order.populate(...) resolves; the 201 response is sent.
CreateRespond(r) ==
  /\ creq[r].pc = "populate"
  /\ creq' = [creq EXCEPT ![r] = [@ EXCEPT !.pc = "done", !.code = 201]]
  /\ UNCHANGED <<stock, isActive, initStock, orders, ureq, published, nUpdates, faults, notifier, clientSide>>

\* An awaited database operation of the handler rejects: catchAsync hands the
\* error to the error handler and the handler runs no further.
CreateFault(r) ==
  /\ creq[r].pc \in {"findFish", "generate", "save", "decrement", "populate"}
  /\ faults < MaxFaults
  /\ faults' = faults + 1
  /\ creq' = [creq EXCEPT ![r] =
       [@ EXCEPT !.pc = "done", !.code = 500, !.error = "StorageUnavailable"]]
  /\ UNCHANGED <<stock, isActive, initStock, orders, ureq, published, nUpdates, notifier, clientSide>>

\* ------------------------------------------------- PUT /api/orders/:id
\* A mutant of validTransitions: a pending order may be delivered directly.
validTransitionsSkip ==
  [s \in Statuses |->
     CASE s = "pending" -> {"processing", "cancelled", "delivered"}
       [] s = "processing" -> {"shipped", "cancelled"}
       [] s = "shipped" -> {"delivered"}
       [] s = "delivered" -> {}
       [] s = "cancelled" -> {}]

\* validTransitions of orderSchema.methods.updateStatus
validTransitions ==
  [s \in Statuses |->
     CASE s = "pending" -> {"processing", "cancelled"}
       [] s = "processing" -> {"shipped", "cancelled"}
       [] s = "shipped" -> {"delivered"}
       [] s = "delivered" -> {}
       [] s = "cancelled" -> {}]

\* updateOrderValidation: body('status').isIn([...])
UpdateValidationErrors(status) == IF status \in Statuses THEN {} ELSE {"status"}

StatusInputs == Statuses \cup {"invalid-status"}
NotesInputs == {"", "Order being prepared"}
OrderRoom(orderId) == <<"order", orderId>>
AdminRoom == <<"admin-room">>

\* The request arrives (an admin may issue a new request once the previous one
\* was answered): validationResult, then Order.findById is issued.
PutBegin(u, orderId, status, adminNotes) ==
  /\ ureq[u].pc \in {"idle", "done"}
  /\ nUpdates < MaxUpdates
  /\ nUpdates' = nUpdates + 1
  /\ IF UpdateValidationErrors(status) # {}
       THEN ureq' = [ureq EXCEPT ![u] =
              [IdleUpdate EXCEPT !.pc = "done", !.code = 400, !.error = "ValidationError"]]
       ELSE ureq' = [ureq EXCEPT ![u] =
              [IdleUpdate EXCEPT !.pc = "findOrder", !.orderId = orderId,
                                 !.status = status, !.adminNotes = adminNotes]]
  /\ UNCHANGED <<stock, isActive, initStock, orders, creq, published, faults, notifier, clientSide>>

\* Order.findById resolves; order.updateStatus(status, adminNotes) validates
\* the change against the status of the loaded document, assigns the fields
\* of the document in memory and issues save().
PutFindOrder(u) ==
  LET q == ureq[u] IN
  /\ q.pc = "findOrder"
  /\ IF q.orderId \notin 1..Len(orders)
       THEN ureq' = [ureq EXCEPT ![u] =
              [@ EXCEPT !.pc = "done", !.code = 404, !.error = "OrderNotFound"]]
       ELSE IF q.status \notin validTransitions[orders[q.orderId].status]
       THEN ureq' = [ureq EXCEPT ![u] =
              [@ EXCEPT !.pc = "done", !.code = 400, !.error = "InvalidTransition",
                        !.from = orders[q.orderId].status,
                        !.message = <<"Cannot change status from",
                                      orders[q.orderId].status, "to", q.status>>]]
       ELSE ureq' = [ureq EXCEPT ![u] =
              [@ EXCEPT !.pc = "save", !.from = orders[q.orderId].status]]
  /\ UNCHANGED <<stock, isActive, initStock, orders, creq, published, nUpdates, faults, notifier, clientSide>>

\* A mutant of PutSave: cancelling an order returns its items to stock.
PutSaveRestock(u) ==
  LET q == ureq[u] IN
  /\ q.pc = "save"
  /\ orders' = [orders EXCEPT ![q.orderId] =
       [@ EXCEPT !.status = q.status,
                 !.adminNotes = IF q.adminNotes # "" THEN q.adminNotes ELSE @,
                 !.actualDelivery = IF q.status = "delivered" THEN TRUE ELSE @]]
  /\ stock' = [f \in Catalog |->
       IF q.status = "cancelled"
         THEN stock[f] + SumSeq([k \in 1..Len(orders[q.orderId].items) |->
                IF orders[q.orderId].items[k].fishId = f
                  THEN orders[q.orderId].items[k].quantity ELSE 0])
         ELSE stock[f]]
  /\ ureq' = [ureq EXCEPT ![u] = [@ EXCEPT !.pc = "populate", !.saved = TRUE]]
  /\ UNCHANGED <<isActive, initStock, creq, published, nUpdates, faults, notifier, clientSide>>

\* A mutant of PutSave: adminNotes is assigned also when none were given.
PutSaveNotes(u) ==
  LET q == ureq[u] IN
  /\ q.pc = "save"
  /\ orders' = [orders EXCEPT ![q.orderId] =
       [@ EXCEPT !.status = q.status,
                 !.adminNotes = q.adminNotes,
                 !.actualDelivery = IF q.status = "delivered" THEN TRUE ELSE @]]
  /\ ureq' = [ureq EXCEPT ![u] = [@ EXCEPT !.pc = "populate", !.saved = TRUE]]
  /\ UNCHANGED <<stock, isActive, initStock, creq, published, nUpdates, faults, notifier, clientSide>>

\* this.save() of the loaded document: an update by _id that sets the modified
\* paths (status; adminNotes when given; actualDelivery on delivered).
PutSave(u) ==
  LET q == ureq[u] IN
  /\ q.pc = "save"
  /\ orders' = [orders EXCEPT ![q.orderId] =
       [@ EXCEPT !.status = q.status,
                 !.adminNotes = IF q.adminNotes # "" THEN q.adminNotes ELSE @,
                 !.actualDelivery = IF q.status = "delivered" THEN TRUE ELSE @]]
  /\ ureq' = [ureq EXCEPT ![u] = [@ EXCEPT !.pc = "populate", !.saved = TRUE]]
  /\ UNCHANGED <<stock, isActive, initStock, creq, published, nUpdates, faults, notifier, clientSide>>

\* ------------------------------------------------- socket.io rooms
\* the sockets that are in a room
RoomMembers(room) == {s \in Sockets : room \in rooms[s]}

\* io.to(room).emit(event): the event is the next publication; it is sent
\* once to each socket that is in the room now, and each of these packets
\* may be lost with the connection that carries it. Nothing is stored for
\* sockets that join later. A subscriber records the publications it gets.
emit(room, event) ==
  /\ published' = Append(published, <<room, event>>)
  /\ \E lost \in SUBSET RoomMembers(room) :
       received' = [s \in Sockets |->
         IF s \in RoomMembers(room) \ lost
           THEN Append(received[s], Len(published) + 1)
           ELSE received[s]]

\* the user whose browser holds socket s: the client sends its token in the
\* handshake, the server never reads it
SocketUser(s) == <<"client", s>>

\* io.on('connection'): a client connects (again); the new socket is in no
\* room of the application.
SocketConnect(s) ==
  /\ s \notin connected
  /\ connected' = connected \cup {s}
  /\ rooms' = [rooms EXCEPT ![s] = {}]
  /\ UNCHANGED <<stock, isActive, initStock, orders, creq, ureq, published,
                 nUpdates, faults, received, clientSide>>

\* the indices of the publications made so far to a room
PastEvents(room) == {k \in 1..Len(published) : published[k][1] = room}

RECURSIVE Ascending(_)
Ascending(S) ==
  IF S = {} THEN <<>>
  ELSE LET m == CHOOSE x \in S : \A y \in S : x <= y
       IN <<m>> \o Ascending(S \ {m})

\* A mutant of JoinOrderRoom: the room replays its past events to a joiner.
JoinOrderRoomReplay(s, orderId) ==
  /\ s \in connected
  /\ rooms' = [rooms EXCEPT ![s] = @ \cup {OrderRoom(orderId)}]
  /\ received' = [received EXCEPT ![s] =
       @ \o Ascending(PastEvents(OrderRoom(orderId)))]
  /\ UNCHANGED <<stock, isActive, initStock, orders, creq, ureq, published,
                 nUpdates, faults, connected, clientSide>>

\* socket.on('join-order-room', orderId): socket.join(`order-${orderId}`)
JoinOrderRoom(s, orderId) ==
  /\ s \in connected
  /\ rooms' = [rooms EXCEPT ![s] = @ \cup {OrderRoom(orderId)}]
  /\ UNCHANGED <<stock, isActive, initStock, orders, creq, ureq, published,
                 nUpdates, faults, connected, received, clientSide>>

\* socket.on('leave-order-room', orderId): socket.leave(`order-${orderId}`)
LeaveOrderRoom(s, orderId) ==
  /\ s \in connected
  /\ rooms' = [rooms EXCEPT ![s] = @ \ {OrderRoom(orderId)}]
  /\ UNCHANGED <<stock, isActive, initStock, orders, creq, ureq, published,
                 nUpdates, faults, connected, received, clientSide>>

\* socket.on('join-admin-room'): socket.join('admin-room')
JoinAdminRoom(s) ==
  /\ s \in connected
  /\ rooms' = [rooms EXCEPT ![s] = @ \cup {AdminRoom}]
  /\ UNCHANGED <<stock, isActive, initStock, orders, creq, ureq, published,
                 nUpdates, faults, connected, received, clientSide>>

\* socket.on('disconnect'): the handler only logs; socket.io has removed the
\* socket from every room.
SocketDisconnect(s) ==
  /\ s \in connected
  /\ connected' = connected \ {s}
  /\ rooms' = [rooms EXCEPT ![s] = {}]
  /\ UNCHANGED <<stock, isActive, initStock, orders, creq, ureq, published,
                 nUpdates, faults, received, clientSide>>

\* A mutant of orderUpdate: the event carries the status found in the store.
orderUpdateStored(q, stored) ==
  [orderId |-> q.orderId, orderNumber |-> stored.orderNumber,
   status |-> stored.status]

\* the payload of the orderUpdate event, read from the document in memory:
\* its status is the one this request assigned, its number never changes
orderUpdate(q, stored) ==
  [orderId |-> q.orderId, orderNumber |-> stored.orderNumber,
   status |-> q.status]

\* order.populate(...) resolves; orderUpdate is emitted to the order's room
\* with the status of the document in memory, and the 200 response is sent.
PutRespond(u) ==
  LET q == ureq[u] IN
  /\ q.pc = "populate"
  /\ emit(OrderRoom(q.orderId), orderUpdate(q, orders[q.orderId]))
  /\ ureq' = [ureq EXCEPT ![u] = [@ EXCEPT !.pc = "done", !.code = 200]]
  /\ UNCHANGED <<stock, isActive, initStock, orders, creq, nUpdates, faults,
                 connected, rooms, clientSide>>

\* An awaited database operation of the update (Order.findById, save() or
\* populate) rejects: the error leaves the handler through catch and
\* catchAsync and the request is answered 500. A rejected save() has written
\* nothing; a rejected populate comes after the write of save().
PutFault(u) ==
  /\ ureq[u].pc \in {"findOrder", "save", "populate"}
  /\ faults < MaxFaults
  /\ faults' = faults + 1
  /\ ureq' = [ureq EXCEPT ![u] =
       [@ EXCEPT !.pc = "done", !.code = 500, !.error = "StorageUnavailable"]]
  /\ UNCHANGED <<stock, isActive, initStock, orders, creq, published, nUpdates, notifier, clientSide>>

\* populate resolved and io.to(room).emit(...) throws: the catch block
\* rethrows every error that is not "Cannot change status", so the request
\* is answered 500 and nothing is published.
PutPublishFault(u) ==
  /\ ureq[u].pc = "populate"
  /\ faults < MaxFaults
  /\ faults' = faults + 1
  /\ ureq' = [ureq EXCEPT ![u] =
       [@ EXCEPT !.pc = "done", !.code = 500, !.error = "PublishFailed"]]
  /\ UNCHANGED <<stock, isActive, initStock, orders, creq, published, nUpdates, notifier, clientSide>>

\* ------------------------------------------------- GET /api/orders[/:id]
\* req.user as authenticate leaves it: a role and the user's id
Users == ({"client"} \X Clients) \cup ({"admin"} \X Admins)

\* what a response shows of an order
Shown(k) == [orderId |-> k, userId |-> orders[k].userId, status |-> orders[k].status]

\* the filter of the listing: the status when one is asked for, and the
\* userId of the caller when the caller is a client
OrderFilter(user, status, k) ==
  /\ status = "" \/ orders[k].status = status
  /\ user[1] = "client" => orders[k].userId = user[2]

\* Order.find(filter).sort({createdAt: -1}): the matching ids, newest first
RECURSIVE FindOrders(_, _, _)
FindOrders(user, status, k) ==
  IF k = 0 THEN <<>>
  ELSE IF OrderFilter(user, status, k)
    THEN <<k>> \o FindOrders(user, status, k - 1)
    ELSE FindOrders(user, status, k - 1)

\* .skip(skip).limit(limit)
SkipLimit(seq, skip, limit) ==
  LET to == IF skip + limit < Len(seq) THEN skip + limit ELSE Len(seq)
  IN [i \in 1..(IF to > skip THEN to - skip ELSE 0) |-> seq[skip + i]]

\* queryValidation: page is an integer >= 1, limit an integer in 1..100
QueryErrors(page, limit) ==
  (IF page >= 1 THEN {} ELSE {"page"})
  \cup (IF limit >= 1 /\ limit <= MaxLimit THEN {} ELSE {"limit"})

\* GET /api/orders?status=&page=&limit=
GetOrders(user, status, page, limit) ==
  LET found == FindOrders(user, status, Len(orders))
      paged == SkipLimit(found, (page - 1) * limit, limit)
      head == [NoRead EXCEPT !.user = user, !.kind = "list", !.status = status]
  IN
  /\ IF QueryErrors(page, limit) # {}
       THEN rres' = [head EXCEPT !.code = 400]
       ELSE rres' = [head EXCEPT !.code = 200,
                                 !.orders = [i \in 1..Len(paged) |-> Shown(paged[i])],
                                 !.totalItems = Len(found)]
  /\ UNCHANGED <<stock, isActive, initStock, orders, creq, ureq, published,
                 nUpdates, faults, notifier, tracker, manager>>

\* A mutant of GetOrder: the owner is not compared with the caller.
GetOrderOpen(user, id) ==
  LET head == [NoRead EXCEPT !.user = user, !.kind = "get", !.id = id] IN
  /\ IF id \notin 1..Len(orders)
       THEN rres' = [head EXCEPT !.code = 404]
       ELSE rres' = [head EXCEPT !.code = 200, !.orders = <<Shown(id)>>,
                                 !.totalItems = 1]
  /\ UNCHANGED <<stock, isActive, initStock, orders, creq, ureq, published,
                 nUpdates, faults, notifier, tracker, manager>>

\* GET /api/orders/:id
GetOrder(user, id) ==
  LET head == [NoRead EXCEPT !.user = user, !.kind = "get", !.id = id] IN
  /\ IF id \notin 1..Len(orders)
       THEN rres' = [head EXCEPT !.code = 404]
       ELSE IF user[1] = "client" /\ orders[id].userId # user[2]
       THEN rres' = [head EXCEPT !.code = 403]
       ELSE rres' = [head EXCEPT !.code = 200, !.orders = <<Shown(id)>>,
                                 !.totalItems = 1]
  /\ UNCHANGED <<stock, isActive, initStock, orders, creq, ureq, published,
                 nUpdates, faults, notifier, tracker, manager>>

\* ------------------------------------------------- OrderTracking.jsx
\* the socket of the tracking component, as the server knows it
TrackSocket == 1

server == <<stock, isActive, initStock, orders, creq, ureq, published, nUpdates,
            faults, rres, manager>>

\* The effect runs for an order: io(socketUrl) opens a socket and the
\* handlers are registered; the component shows the order it was given.
TrackMount(id) ==
  /\ tracked = 0 /\ tconn = "none"
  /\ nMounts < MaxMounts
  /\ id \in 1..Len(orders)
  /\ nMounts' = nMounts + 1
  /\ tracked' = id
  /\ tconn' = "opening"
  /\ tqueue' = <<>>
  /\ tseen' = Len(received[TrackSocket])
  /\ shown' = orders[id].status
  /\ UNCHANGED <<server, notifier, nDrops>>

\* A mutant of TrackConnect: the room is joined on the first connection only.
TrackConnectOnce ==
  /\ tracked # 0 /\ tconn \in {"opening", "down"}
  /\ connected' = connected \cup {TrackSocket}
  /\ rooms' = [rooms EXCEPT ![TrackSocket] = {}]
  /\ tconn' = "up"
  /\ tqueue' = IF tconn = "opening"
                 THEN Append(tqueue, <<"join-order-room", tracked>>) ELSE tqueue
  /\ UNCHANGED <<server, received, tracked, tseen, shown, nMounts, nDrops>>

\* The socket connects, for the first time or again: the server has a new
\* connection that is in no room, and the 'connect' handler emits
\* join-order-room for the order of the effect.
TrackConnect ==
  /\ tracked # 0 /\ tconn \in {"opening", "down"}
  /\ connected' = connected \cup {TrackSocket}
  /\ rooms' = [rooms EXCEPT ![TrackSocket] = {}]
  /\ tconn' = "up"
  /\ tqueue' = Append(tqueue, <<"join-order-room", tracked>>)
  /\ UNCHANGED <<server, received, tracked, tseen, shown, nMounts, nDrops>>

\* The server handles the next control message of the socket.
TrackServe ==
  /\ tqueue # <<>> /\ TrackSocket \in connected
  /\ rooms' = [rooms EXCEPT ![TrackSocket] =
       IF Head(tqueue)[1] = "join-order-room"
         THEN @ \cup {OrderRoom(Head(tqueue)[2])}
         ELSE @ \ {OrderRoom(Head(tqueue)[2])}]
  /\ tqueue' = Tail(tqueue)
  /\ UNCHANGED <<server, connected, received, tracked, tconn, tseen, shown,
                 nMounts, nDrops>>

\* The connection is lost: the server drops the socket from its rooms and
\* what was in flight is lost; the client will connect again.
TrackDrop ==
  /\ tconn = "up"
  /\ nDrops < MaxDrops
  /\ nDrops' = nDrops + 1
  /\ connected' = connected \ {TrackSocket}
  /\ rooms' = [rooms EXCEPT ![TrackSocket] = {}]
  /\ tqueue' = <<>>
  /\ tconn' = "down"
  /\ UNCHANGED <<server, received, tracked, tseen, shown, nMounts>>

\* The orderUpdate handler runs for the next event the socket was sent.
TrackOnUpdate ==
  LET event == published[received[TrackSocket][tseen + 1]][2] IN
  /\ tracked # 0
  /\ tseen < Len(received[TrackSocket])
  /\ tseen' = tseen + 1
  /\ shown' = IF event.orderId = tracked THEN event.status ELSE shown
  /\ UNCHANGED <<server, notifier, tracked, tconn, tqueue, nMounts, nDrops>>

\* The cleanup of the effect: emit leave-order-room for the order of the
\* effect, then disconnect. A socket that is not connected sends nothing.
TrackUnmount ==
  /\ tracked # 0
  /\ tracked' = 0
  /\ IF tconn = "up"
       THEN /\ tqueue' = Append(tqueue, <<"leave-order-room", tracked>>)
            /\ tconn' = "closing"
       ELSE /\ tqueue' = <<>>
            /\ tconn' = "none"
  /\ UNCHANGED <<server, notifier, tseen, shown, nMounts, nDrops>>

\* The server has handled what the socket sent and sees it disconnect.
TrackClosed ==
  /\ tconn = "closing" /\ tqueue = <<>>
  /\ connected' = connected \ {TrackSocket}
  /\ rooms' = [rooms EXCEPT ![TrackSocket] = {}]
  /\ tconn' = "none"
  /\ UNCHANGED <<server, received, tracked, tqueue, tseen, shown, nMounts, nDrops>>

\* ------------------------------------------------- utils/socket.js
\* the socket of the manager, as the server knows it
ManagerSocket == 2

backend == <<stock, isActive, initStock, orders, creq, ureq, published, nUpdates,
             faults, rres, tracker, received>>

\* what the server does when a socket goes away
Gone(s) ==
  /\ connected' = connected \ {s}
  /\ rooms' = [rooms EXCEPT ![s] = {}]

\* SocketManager.connect(): an existing socket is disconnected first, then
\* io(...) opens a new one; reconnectAttempts is not assigned.
ManagerConnect ==
  /\ nConnects < MaxConnects
  /\ nConnects' = nConnects + 1
  /\ socket' = "opening"
  /\ isConnected' = FALSE
  /\ Gone(ManagerSocket)
  /\ UNCHANGED <<backend, reconnectAttempts>>

\* socket.on('connect')
ManagerOnConnect ==
  /\ socket = "opening"
  /\ socket' = "open"
  /\ isConnected' = TRUE
  /\ reconnectAttempts' = 0
  /\ connected' = connected \cup {ManagerSocket}
  /\ rooms' = [rooms EXCEPT ![ManagerSocket] = {}]
  /\ UNCHANGED <<backend, nConnects>>

\* socket.on('disconnect'): the connection is lost and the socket tries again
ManagerOnDisconnect ==
  /\ socket = "open"
  /\ socket' = "opening"
  /\ isConnected' = FALSE
  /\ Gone(ManagerSocket)
  /\ UNCHANGED <<backend, reconnectAttempts, nConnects>>

\* socket.on('connect_error'): count the attempt and give up, through
\* disconnect(), once the count has reached maxReconnectAttempts.
ManagerOnConnectError ==
  /\ socket = "opening"
  /\ reconnectAttempts' = reconnectAttempts + 1
  /\ IF reconnectAttempts + 1 >= maxReconnectAttempts
       THEN socket' = "null" /\ isConnected' = FALSE
       ELSE UNCHANGED <<socket, isConnected>>
  /\ UNCHANGED <<backend, notifier, nConnects>>

\* SocketManager.disconnect()
ManagerDisconnect ==
  /\ socket # "null"
  /\ socket' = "null"
  /\ isConnected' = FALSE
  /\ Gone(ManagerSocket)
  /\ UNCHANGED <<backend, reconnectAttempts, nConnects>>

\* SocketManager.joinOrderRoom(orderId) on a connected socket, and the
\* server's join-order-room handler
ManagerJoinOrderRoom(orderId) ==
  /\ socket = "open"
  /\ rooms' = [rooms EXCEPT ![ManagerSocket] = @ \cup {OrderRoom(orderId)}]
  /\ UNCHANGED <<backend, connected, manager>>

\* SocketManager.joinAdminRoom() on a connected socket, and the server's
\* join-admin-room handler
ManagerJoinAdminRoom ==
  /\ socket = "open"
  /\ rooms' = [rooms EXCEPT ![ManagerSocket] = @ \cup {AdminRoom}]
  /\ UNCHANGED <<backend, connected, manager>>

\* The ledger of the status tests: client 1 has created one order of 1 kg of
\* fish A, which is pending, and has been answered.
FixtureItem ==
  [fishId |-> "A", quantity |-> 1 * QtyUnit, pricePerKg |-> pricePerKg["A"],
   subtotal |-> 1 * QtyUnit * pricePerKg["A"]]

FixtureOrder ==
  [userId |-> 1, orderNumber |-> generateOrderNumber(<<>>, dateStr),
   items |-> <<FixtureItem>>, totalPrice |-> FixtureItem.subtotal,
   deliveryAddress |-> "456 New Street, Nairobi, Kenya", status |-> "pending",
   paymentStatus |-> "pending", adminNotes |-> "", actualDelivery |-> FALSE]

FixtureRequest ==
  [IdleCreate EXCEPT
     !.pc = "done", !.code = 201, !.i = 2, !.orderId = 1,
     !.items = <<[fishId |-> "A", quantity |-> 1 * QtyUnit]>>,
     !.applied = <<[fishId |-> "A", quantity |-> 1 * QtyUnit]>>,
     !.deliveryAddress = "456 New Street, Nairobi, Kenya",
     !.orderItems = <<FixtureItem>>, !.totalPrice = FixtureItem.subtotal,
     !.orderNumber = FixtureOrder.orderNumber]

\* an order as Order.create stores it with a given number
NumberedOrder(n, date) ==
  [FixtureOrder EXCEPT
     !.orderNumber = [date |-> date, seq |-> PadStart(ToDigits(n), PadWidth)]]

\* the orders lo..hi of a date, in the order of their creation
OrderRun(lo, hi, date) ==
  [i \in 1..(IF hi >= lo THEN hi - lo + 1 ELSE 0) |-> NumberedOrder(lo + i - 1, date)]

InitStatus ==
  /\ initStock = [f \in Catalog |-> QtyUnit * MaxStockKg]
  /\ stock = [initStock EXCEPT !["A"] = @ - FixtureItem.quantity]
  /\ isActive = [f \in Catalog |-> TRUE]
  /\ orders = <<FixtureOrder>>
  /\ creq = [r \in Clients |-> IF r = 1 THEN FixtureRequest ELSE IdleCreate]
  /\ ureq = [u \in Admins |-> IdleUpdate]
  /\ published = <<>>
  /\ nUpdates = 0
  /\ faults = 0
  /\ connected = {}
  /\ rooms = [s \in Sockets |-> {}]
  /\ received = [s \in Sockets |-> <<>>]
  /\ InitClientSide

NextStatus ==
  \/ \E u \in Admins, id \in 1..2, s \in StatusInputs, n \in NotesInputs :
       PutBegin(u, id, s, n)
  \/ \E u \in Admins : PutFindOrder(u)
  \/ \E u \in Admins : PutSave(u)
  \/ \E u \in Admins : PutRespond(u)

SpecStatus == InitStatus /\ [][NextStatus]_vars

\* the status updates when the store or the notifier may fail
NextStatusFaults ==
  \/ NextStatus
  \/ \E u \in Admins : PutFault(u)
  \/ \E u \in Admins : PutPublishFault(u)

SpecStatusFaults == InitStatus /\ [][NextStatusFaults]_vars

\* the status updates one admin makes to the fixture order, one after the
\* other, and the sockets that watch it
NextNotify ==
  \/ \E s \in Statuses : PutBegin(1, 1, s, "")
  \/ PutFindOrder(1)
  \/ PutSave(1)
  \/ PutRespond(1)
  \/ \E s \in Sockets : SocketConnect(s)
  \/ \E s \in Sockets : JoinOrderRoom(s, 1)
  \/ \E s \in Sockets : LeaveOrderRoom(s, 1)
  \/ \E s \in Sockets : JoinAdminRoom(s)
  \/ \E s \in Sockets : SocketDisconnect(s)

SpecNotify == InitStatus /\ [][NextNotify]_vars

\* client 1 has two pending orders
InitTrack ==
  /\ initStock = [f \in Catalog |-> QtyUnit * MaxStockKg]
  /\ stock = [initStock EXCEPT !["A"] = @ - 2 * FixtureItem.quantity]
  /\ isActive = [f \in Catalog |-> TRUE]
  /\ orders = OrderRun(1, 2, dateStr)
  /\ creq = [r \in Clients |-> IF r = 1 THEN FixtureRequest ELSE IdleCreate]
  /\ ureq = [u \in Admins |-> IdleUpdate]
  /\ published = <<>>
  /\ nUpdates = 0
  /\ faults = 0
  /\ connected = {}
  /\ rooms = [s \in Sockets |-> {}]
  /\ received = [s \in Sockets |-> <<>>]
  /\ InitClientSide

\* an admin moves the two orders on while the component tracks one of them
NextTrack ==
  \/ \E id \in 1..2, s \in {"processing", "shipped", "cancelled"} :
       PutBegin(1, id, s, "")
  \/ PutFindOrder(1)
  \/ PutSave(1)
  \/ PutRespond(1)
  \/ \E id \in 1..2 : TrackMount(id)
  \/ TrackConnect
  \/ TrackServe
  \/ TrackDrop
  \/ TrackOnUpdate
  \/ TrackUnmount
  \/ TrackClosed

SpecTrack == InitTrack /\ [][NextTrack]_vars

\* the socket manager of a page, used by itself
NextManager ==
  \/ ManagerConnect
  \/ ManagerOnConnect
  \/ ManagerOnDisconnect
  \/ ManagerOnConnectError
  \/ ManagerDisconnect
  \/ \E id \in 1..2 : ManagerJoinOrderRoom(id)
  \/ ManagerJoinAdminRoom

SpecManager == InitStatus /\ [][NextManager]_vars

\* the body of the orders that are read: 1 kg of fish A
ReadBody ==
  [items |-> <<[fishId |-> "A", quantity |-> 1 * QtyUnit]>>,
   deliveryAddress |-> "456 New Street, Nairobi, Kenya"]

\* clients create orders, an admin moves them on, and clients and admins read
NextRead ==
  \/ \E r \in Clients : CreateBegin(r, ReadBody)
  \/ \E r \in Clients : CreateFindFish(r)
  \/ \E r \in Clients : CreateGenerate(r)
  \/ \E r \in Clients : CreateSave(r)
  \/ \E r \in Clients : CreateDecrement(r)
  \/ \E r \in Clients : CreateRespond(r)
  \/ \E id \in Clients : PutBegin(1, id, "processing", "")
  \/ PutFindOrder(1)
  \/ PutSave(1)
  \/ PutRespond(1)
  \/ \E user \in Users, status \in {"", "processing"},
        page \in 0..MaxPage, limit \in 1..MaxPageSize :
       GetOrders(user, status, page, limit)
  \/ \E user \in Users, id \in 1..(NumClients + 1) : GetOrder(user, id)

\* The orders of today that decide the next number: all of them on a day
\* that has just begun, and the last ones, from TailStart on, on a day with
\* thousands of orders (the orders before them have four digits that are
\* smaller as strings and as numbers).
DayLedgers ==
  {OrderRun(1, h, dateStr) : h \in 0..MaxSmallDay}
  \cup {OrderRun(TailStart, h, dateStr) : h \in TailStart..(TailStart + TailLen - 1)}

\* a ledger with orders of the day before and of today; the fish are active
\* and restocked
InitNumber ==
  /\ initStock = [f \in Catalog |-> QtyUnit * MaxStockKg]
  /\ stock = initStock
  /\ isActive = [f \in Catalog |-> TRUE]
  /\ \E e \in 0..MaxEarlier, today \in DayLedgers :
       orders = OrderRun(1, e, earlierDate) \o today
  /\ creq = [r \in Clients |-> IdleCreate]
  /\ ureq = [u \in Admins |-> IdleUpdate]
  /\ published = <<>>
  /\ nUpdates = 0
  /\ faults = 0
  /\ connected = {}
  /\ rooms = [s \in Sockets |-> {}]
  /\ received = [s \in Sockets |-> <<>>]
  /\ InitClientSide

\* orders of 1 kg of fish A are created on that ledger
NextNumber ==
  \/ \E r \in Clients : CreateBegin(r, ReadBody)
  \/ \E r \in Clients : CreateFindFish(r)
  \/ \E r \in Clients : CreateGenerate(r)
  \/ \E r \in Clients : CreateSave(r)
  \/ \E r \in Clients : CreateDecrement(r)
  \/ \E r \in Clients : CreateRespond(r)

SpecNumber == InitNumber /\ [][NextNumber]_vars

\* every fish is active and fully stocked, no order exists yet
InitRead ==
  /\ Init
  /\ stock = [f \in Catalog |-> QtyUnit * MaxStockKg]
  /\ isActive = [f \in Catalog |-> TRUE]

SpecRead == InitRead /\ [][NextRead]_vars

Next ==
  \/ \E r \in Clients, body \in Bodies : CreateBegin(r, body)
  \/ \E r \in Clients : CreateFindFish(r)
  \/ \E r \in Clients : CreateGenerate(r)
  \/ \E r \in Clients : CreateSave(r)
  \/ \E r \in Clients : CreateDecrement(r)
  \/ \E r \in Clients : CreateRespond(r)
  \/ \E r \in Clients : CreateFault(r)

Spec == Init /\ [][Next]_vars

\* ================================================================ claims
Answered(r) == creq[r].pc = "done"
Succeeded(r) == creq[r].pc = "done" /\ creq[r].code = 201

\* quantity of fish f on the lines of a list of lines
RECURSIVE QtyOf(_, _)
QtyOf(lines, f) ==
  IF lines = <<>> THEN 0
  ELSE (IF lines[1].fishId = f THEN lines[1].quantity ELSE 0) + QtyOf(Tail(lines), f)

RECURSIVE SumOver(_, _)
SumOver(F(_), S) ==
  IF S = {} THEN 0
  ELSE LET x == CHOOSE y \in S : TRUE IN F(x) + SumOver(F, S \ {x})

\* quantity of fish f held by the persisted orders
Held(f) == LET Q(k) == QtyOf(orders[k].items, f) IN SumOver(Q, 1..Len(orders))

\* quantity of fish f that the requests have taken out of stock so far
Taken(f) == LET Q(r) == QtyOf(creq[r].applied, f) IN SumOver(Q, Clients)

DistinctLines(lines) ==
  \A j, k \in 1..Len(lines) : j # k => lines[j].fishId # lines[k].fishId

\* C1: under any interleaving of creation requests, every fish's stock is
\* >= 0 and the persisted orders never hold more of a fish than was initially
\* available.  Stated for requests whose lines name distinct fish, so that a
\* violation is one of concurrent requests and not of one request naming a
\* fish twice.
C1_NoOversell ==
  (\A r \in Clients : DistinctLines(creq[r].items))
    => \A f \in Catalog : stock[f] >= 0 /\ Held(f) <= initStock[f]

\* C2: when all N requests ask for q units of the same fish with S units in
\* stock, exactly S div q succeed, the others fail with InsufficientStock and
\* S - q * (S div q) units remain.  Stated for behaviours without a rejected
\* database operation and without an order-number collision.
C2_ExactlyFloor ==
  \A f \in Catalog, q \in 1..MaxQty :
    ( /\ \A r \in Clients : Answered(r) /\ creq[r].items = <<[fishId |-> f, quantity |-> q]>>
      /\ \A r \in Clients : creq[r].error \notin {"StorageUnavailable", "DuplicateKey"}
      /\ isActive[f] )
    => /\ Cardinality({r \in Clients : Succeeded(r)}) = initStock[f] \div q
       /\ \A r \in Clients : ~Succeeded(r) => creq[r].error = "InsufficientStock"
       /\ stock[f] = initStock[f] - q * (initStock[f] \div q)

\* C3: creation is all-or-nothing: an answered request that failed has no
\* order record and has taken nothing out of stock, and an answered request
\* that took stock has its order persisted and took every one of its lines.
C3_AllOrNothing ==
  \A r \in Clients :
    Answered(r) =>
      /\ creq[r].code # 201 => creq[r].orderId = 0 /\ creq[r].applied = <<>>
      /\ creq[r].applied # <<>> => creq[r].orderId # 0 /\ creq[r].applied = creq[r].items

\* C4: concurrent creation requests of one day receive distinct order
\* numbers, none fails on the number, and the sequence integers of the day's
\* orders are exactly 1..count.
HasNumber(r) == creq[r].orderNumber.seq # <<>>

C4_DistinctNumbers ==
  /\ \A r, t \in Clients :
       r # t /\ HasNumber(r) /\ HasNumber(t) => creq[r].orderNumber # creq[t].orderNumber
  /\ \A r \in Clients : creq[r].error # "DuplicateKey"
  /\ {ParseInt(orders[k].orderNumber.seq) : k \in 1..Len(orders)} = 1..Len(orders)

\* The transition table of the status lifecycle.
TransitionTable ==
  {<<"pending", "processing">>, <<"pending", "cancelled">>,
   <<"processing", "shipped">>, <<"processing", "cancelled">>,
   <<"shipped", "delivered">>}

\* C5: a status update to `to` of an order loaded with status `from` succeeds
\* if and only if (from, to) is in the transition table; for every other pair
\* it fails with 400 "Cannot change status from <from> to <to>" and writes
\* nothing to the order.
C5_Decided ==
  \A u \in Admins :
    LET q == ureq[u] IN
    /\ q.from # "" =>
         IF <<q.from, q.status>> \in TransitionTable
           THEN /\ q.error = ""
                /\ q.pc \in {"save", "populate", "done"}
                /\ q.pc = "done" => q.code = 200
           ELSE /\ q.pc = "done" /\ q.code = 400 /\ q.error = "InvalidTransition"
                /\ q.message = <<"Cannot change status from", q.from, "to", q.status>>
    /\ q.code = 200 \/ q.error = "InvalidTransition" => q.from # ""

C5_Step ==
  \A u \in Admins :
    LET q == ureq[u] IN
    \* the status the request decides on is the persisted one when it loads
    /\ q.pc = "findOrder" /\ ureq'[u].from # ""
         => ureq'[u].from = orders[q.orderId].status
    \* a rejected update writes nothing
    /\ q.pc = "findOrder" /\ ureq'[u].error = "InvalidTransition" => orders' = orders
    \* an accepted update persists the requested status
    /\ q.pc = "save" /\ ureq'[u].pc = "populate" => orders'[q.orderId].status = q.status

C6_OnlyEdges ==
  [][\A k \in 1..Len(orders) :
       orders'[k].status # orders[k].status
         => <<orders[k].status, orders'[k].status>> \in TransitionTable]_vars

\* C7: once an order's persisted status is delivered or cancelled it never
\* changes again.
C7_TerminalStays ==
  [][\A k \in 1..Len(orders) :
       orders[k].status \in {"delivered", "cancelled"}
         => orders'[k].status = orders[k].status]_vars

\* C8: of two update requests of one order that loaded the same status, at
\* most one is applied and reports success.
C8_Serialized ==
  \A u, v \in Admins :
    ( /\ u # v
      /\ ureq[u].from # "" /\ ureq[u].from = ureq[v].from
      /\ ureq[u].orderId = ureq[v].orderId )
    => ~(ureq[u].code = 200 /\ ureq[v].code = 200)

CurrentLine(r) == creq[r].items[creq[r].i]

\* r takes a step of its item loop that is not a rejected database operation
LoopStep(r) ==
  /\ creq[r].pc = "findFish"
  /\ creq'[r] # creq[r]
  /\ creq'[r].error # "StorageUnavailable"

\* C11: when validation reads a fish whose stock is below the quantity of the
\* line, the creation fails with 400 InsufficientStock reporting that fish,
\* its available and the requested amount; the request has no order and no
\* stock is changed, also not that of the fish of its earlier lines.
C11_Ended ==
  \A r \in Clients :
    creq[r].error = "InsufficientStock" =>
      /\ creq[r].pc = "done" /\ creq[r].code = 400
      /\ creq[r].detail.fishId = CurrentLine(r).fishId
      /\ creq[r].detail.requested = CurrentLine(r).quantity
      /\ creq[r].detail.requested > creq[r].detail.available
      /\ creq[r].orderId = 0 /\ creq[r].applied = <<>>

C11_Step ==
  \A r \in Clients :
    ( /\ LoopStep(r)
      /\ ~fishUnavailable(CurrentLine(r).fishId, isActive)
      /\ stock[CurrentLine(r).fishId] < CurrentLine(r).quantity )
    => /\ creq'[r].error = "InsufficientStock"
       /\ creq'[r].detail.available = stock[CurrentLine(r).fishId]
       /\ stock' = stock /\ orders' = orders

C11_InsufficientStock == [](C11_Ended) /\ [][C11_Step]_vars

C11_Witness ==
  \E r \in Clients :
    /\ creq[r].error = "InsufficientStock" /\ creq[r].i = 2
    /\ creq[r].items[1].fishId # creq[r].items[2].fishId
    /\ creq[r].detail.available = 1 * QtyUnit
    /\ stock = initStock /\ orders = <<>>

\* C12: when validation reads a line whose fish is missing or inactive, the
\* creation fails with 404 SkuNotFound, also after lines that are valid and in
\* stock; the request has no order and no stock is changed.
C12_Ended ==
  \A r \in Clients :
    creq[r].error = "SkuNotFound" =>
      /\ creq[r].pc = "done" /\ creq[r].code = 404
      /\ creq[r].detail.fishId = CurrentLine(r).fishId
      /\ CurrentLine(r).fishId \in Catalog => ~isActive[CurrentLine(r).fishId]
      /\ creq[r].orderId = 0 /\ creq[r].applied = <<>>

C12_Step ==
  \A r \in Clients :
    ( /\ LoopStep(r)
      /\ CurrentLine(r).fishId \notin Catalog \/ ~isActive[CurrentLine(r).fishId] )
    => /\ creq'[r].error = "SkuNotFound"
       /\ stock' = stock /\ orders' = orders

C12_SkuNotFound == [](C12_Ended) /\ [][C12_Step]_vars

C12_Witness ==
  \E r, t \in Clients :
    /\ creq[r].error = "SkuNotFound" /\ creq[r].i = 2
    /\ creq[r].items[1].fishId = "A" /\ creq[r].items[2].fishId = "Z"
    /\ creq[t].error = "SkuNotFound" /\ creq[t].i = 2
    /\ creq[t].items[1].fishId = "A" /\ creq[t].items[2].fishId = "B"
    /\ stock = initStock /\ orders = <<>>

\* C13: whenever a creation commits (the request is answered 201), a newOrder
\* event naming the order has been published to the admin room.
C13_NewOrderPublished ==
  \A r \in Clients :
    Succeeded(r) =>
      \E k \in 1..Len(published) :
        /\ published[k][1] = AdminRoom
        /\ published[k][2].orderId = creq[r].orderId

\* C14: every status change that commits is followed by exactly one
\* orderUpdate event on the room of the order: the event is published by the
\* request that wrote the change, after its write, and carries the order's
\* id, its number and the status this request wrote; nothing else publishes.
C14_AfterPersist ==
  \A u \in Admins :
    /\ ureq[u].pc = "populate" => ureq[u].saved
    /\ (ureq[u].pc = "done" /\ ureq[u].code = 200) => ureq[u].saved

C14_Step ==
  /\ \A u \in Admins :
       (ureq[u].pc = "populate" /\ ureq'[u].pc = "done") =>
         /\ ureq'[u].code = 200
         /\ published' = Append(published,
              <<OrderRoom(ureq[u].orderId),
                [orderId |-> ureq[u].orderId,
                 orderNumber |-> orders[ureq[u].orderId].orderNumber,
                 status |-> ureq[u].status]>>)
  /\ published' # published =>
       \E u \in Admins : ureq[u].pc = "populate" /\ ureq'[u].pc = "done"

C15_FailedLeavesStatus ==
  \A u \in Admins :
    (ureq[u].pc = "done" /\ ureq[u].code # 200) => ~ureq[u].saved

\* C16: when the publication fails after the change was persisted, the
\* change stays persisted and the request is answered with success.
C16_PublishFailureSwallowed ==
  \A u \in Admins :
    ureq[u].error = "PublishFailed" =>
      /\ ureq[u].saved
      /\ ureq[u].code = 200

\* C17: a publication is delivered at most once, and only to sockets that are
\* in its room when it is published; a socket that joins the room, or
\* connects again, afterwards never receives it (nothing is replayed).
C17_Once ==
  \A s \in Sockets :
    /\ \A i \in 1..Len(received[s]) : received[s][i] \in 1..Len(published)
    /\ \A i, j \in 1..Len(received[s]) : i < j => received[s][i] < received[s][j]

C17_Step ==
  \A s \in Sockets :
    received'[s] # received[s] =>
      /\ Len(published') = Len(published) + 1
      /\ published'[Len(published')][1] \in rooms[s]
      /\ received'[s] = Append(received[s], Len(published'))

C17_AtMostOnceNoReplay == [](C17_Once) /\ [][C17_Step]_vars

\* socket 1 watched the order from the start and got both publications;
\* socket 2 joined the room after the first one and got only the second
C17_Witness ==
  /\ Len(published) = 2
  /\ received[1] = <<1, 2>>
  /\ received[2] = <<2>>
  /\ \A s \in Sockets : OrderRoom(1) \in rooms[s]

\* C18: a creation that omits deliveryAddress and is valid otherwise is not
\* rejected; it is created with the default address of its owner.
C18_DefaultAddress ==
  \A r \in Clients :
    /\ ~(creq[r].error = "ValidationError" /\ creq[r].fields = {"deliveryAddress"})
    /\ (Succeeded(r) /\ creq[r].deliveryAddress = "") =>
         orders[creq[r].orderId].deliveryAddress = UserAddress(r)

\* C19: every persisted order has between 1 and 10 items, each of at least
\* 1 kg; a request with an empty list, more than 10 items or a quantity below
\* 1 kg is answered 400 before any fish is read: it has read no line, has no
\* order, and the step that rejects it changes no order and no stock.
WellFormedItems(items) ==
  /\ Len(items) >= MinItems /\ Len(items) <= MaxOrderItems
  /\ \A k \in 1..Len(items) : items[k].quantity >= 1 * QtyUnit

C19_Bounded ==
  /\ \A k \in 1..Len(orders) : WellFormedItems(orders[k].items)
  /\ \A r \in Clients :
       /\ creq[r].pc # "idle" /\ creq[r].error # "ValidationError" =>
            WellFormedItems(creq[r].items)
       /\ creq[r].error = "ValidationError" =>
            /\ creq[r].pc = "done" /\ creq[r].code = 400
            /\ creq[r].i = 0 /\ creq[r].orderItems = <<>>
            /\ creq[r].orderId = 0 /\ creq[r].applied = <<>>

C19_Step ==
  \A r \in Clients :
    (creq[r].error = "" /\ creq'[r].error = "ValidationError") =>
      /\ creq[r].pc = "idle"
      /\ stock' = stock /\ orders' = orders

C19_ItemLimits == [](C19_Bounded) /\ [][C19_Step]_vars

\* one request was rejected for its list and its quantities while another
\* has created an order of MaxItems lines
C19_Witness ==
  \E r, t \in Clients :
    /\ creq[r].error = "ValidationError"
    /\ creq[r].fields = {"items", "items.quantity"}
    /\ Succeeded(t) /\ Len(orders) = 1 /\ Len(orders[1].items) = MaxItems

\* C20: in every state an order carries actualDelivery if and only if its
\* status is delivered.
C20_DeliveredIffActual ==
  \A k \in 1..Len(orders) :
    orders[k].actualDelivery <=> orders[k].status = "delivered"

\* the fields of an order that are fixed at creation
Created(o) ==
  <<o.userId, o.orderNumber, o.items, o.totalPrice, o.paymentStatus,
    o.deliveryAddress>>

\* C21: once an order exists, its items, totalPrice, orderNumber, owner and
\* paymentStatus never change and it is never deleted; a status update
\* changes at most status, adminNotes (only to notes that were given) and
\* actualDelivery, and a step in which an update fails changes no order.
C21_Step ==
  /\ Len(orders') >= Len(orders)
  /\ \A k \in 1..Len(orders) :
       /\ Created(orders'[k]) = Created(orders[k])
       /\ orders'[k].adminNotes # orders[k].adminNotes =>
            \E u \in Admins :
              /\ ureq[u].pc = "save" /\ ureq[u].orderId = k
              /\ ureq[u].adminNotes # ""
              /\ orders'[k].adminNotes = ureq[u].adminNotes
  /\ \A u \in Admins :
       (ureq[u].pc # "done" /\ ureq'[u].pc = "done" /\ ureq'[u].code # 200) =>
         orders' = orders

C22_Step ==
  (ureq' # ureq \/ \E k \in 1..Len(orders) : orders'[k].status # orders[k].status)
    => stock' = stock

C22_NoRestock == [][C22_Step]_vars

\* the fixture order is cancelled and its kilogram of fish A is still taken
C22_Witness ==
  /\ orders[1].status = "cancelled"
  /\ \E u \in Admins : ureq[u].pc = "done" /\ ureq[u].code = 200
                        /\ ureq[u].status = "cancelled"
  /\ stock["A"] = initStock["A"] - orders[1].items[1].quantity

\* C23: a client reads only its own orders: fetching another user's order
\* is answered 403 without data, and every order of a client's listing is
\* owned by that client, whatever filter and page; an admin can fetch every
\* order, and an admin's listing counts every order that matches the filter.
C23_Own ==
  rres.user[1] = "client" =>
    /\ \A i \in 1..Len(rres.orders) : rres.orders[i].userId = rres.user[2]
    /\ rres.code = 403 => rres.orders = <<>>

C23_Step ==
  rres' # rres =>
    /\ ( /\ rres'.kind = "get" /\ rres'.id \in 1..Len(orders) ) =>
         IF rres'.user[1] = "client" /\ orders[rres'.id].userId # rres'.user[2]
           THEN rres'.code = 403 /\ rres'.orders = <<>>
           ELSE rres'.code = 200 /\ rres'.orders = <<Shown(rres'.id)>>
    /\ ( /\ rres'.kind = "list" /\ rres'.code = 200 /\ rres'.user[1] = "admin" ) =>
         rres'.totalItems =
           Cardinality({k \in 1..Len(orders) :
              rres'.status = "" \/ orders[k].status = rres'.status})
    /\ ( /\ rres'.kind = "list" /\ rres'.code = 200 /\ rres'.user[1] = "client" ) =>
         rres'.totalItems =
           Cardinality({k \in 1..Len(orders) :
              /\ rres'.status = "" \/ orders[k].status = rres'.status
              /\ orders[k].userId = rres'.user[2]})

C23_ReadOwn == [](C23_Own) /\ [][C23_Step]_vars

\* two clients own one order each and one of them was refused the other's
C23_Witness ==
  /\ Len(orders) = 2 /\ orders[1].userId # orders[2].userId
  /\ rres.kind = "get" /\ rres.user[1] = "client" /\ rres.code = 403
  /\ orders[rres.id].userId # rres.user[2]

\* C24: an orderUpdate event of an order is delivered only to the owner of
\* the order or to an admin, and an event of the admin room only to admins.
C24_OnlyInterested ==
  \A s \in Sockets :
    \A i \in 1..Len(received[s]) :
      LET room == published[received[s][i]][1]
          event == published[received[s][i]][2]
      IN \/ SocketUser(s)[1] = "admin"
         \/ /\ room # AdminRoom
            /\ SocketUser(s) = <<"client", orders[event.orderId].userId>>

\* C25: a single request, alone in the system, that asks for one fish on two
\* lines is created only when the sum of the two quantities fits the stock;
\* otherwise it fails with InsufficientStock and the stock is unchanged.
C25_DuplicateLines ==
  \A r \in Clients :
    ( /\ \A t \in Clients \ {r} : creq[t].pc = "idle"
      /\ Answered(r) /\ creq[r].error # "StorageUnavailable"
      /\ Len(creq[r].items) = 2
      /\ creq[r].items[1].fishId = creq[r].items[2].fishId
      /\ creq[r].items[1].fishId \in Catalog
      /\ isActive[creq[r].items[1].fishId] )
    => LET f == creq[r].items[1].fishId
           sum == creq[r].items[1].quantity + creq[r].items[2].quantity
       IN IF sum <= initStock[f]
            THEN /\ Succeeded(r)
                 /\ Len(orders[creq[r].orderId].items) = 2
                 /\ stock[f] = initStock[f] - sum
            ELSE /\ creq[r].error = "InsufficientStock"
                 /\ stock = initStock /\ orders = <<>>

\* C26: in every state the stock of every fish is a whole number of
\* kilograms and is not negative.
C26_WholeStock ==
  \A f \in Catalog : stock[f] >= 0 /\ stock[f] % QtyUnit = 0

\* the sequence integers of the persisted orders of a date
DaySequences(date) ==
  {ParseInt(orders[k].orderNumber.seq) :
     k \in {j \in 1..Len(orders) : orders[j].orderNumber.date = date}}

\* C27: the number generated for today carries a sequence that is one more
\* than the largest sequence integer of today's persisted orders, or 1 when
\* today has none, whatever the day before holds and however many orders
\* today has; the number is that of no persisted order.
C27_Step ==
  \A r \in Clients :
    (creq[r].pc = "generate" /\ creq'[r].pc = "save") =>
      LET S == DaySequences(dateStr)
          n == ParseInt(creq'[r].orderNumber.seq)
      IN /\ creq'[r].orderNumber.date = dateStr
         /\ IF S = {} THEN n = 1
            ELSE \E m \in S : (\A x \in S : x <= m) /\ n = m + 1
         /\ \A k \in 1..Len(orders) : orders[k].orderNumber # creq'[r].orderNumber

C27_NextNumber == [][C27_Step]_vars

\* C28: the tracking component joins the room of its order on every connect
\* of its socket, so that it is in the room whenever it is connected and the
\* server has handled what it sent; when tracking ends it sends
\* leave-order-room for the same order and disconnects; it shows the status
\* of an event only if the event is about the order it tracks.
C28_Subscribed ==
  /\ (tconn = "up" /\ tqueue = <<>>) => OrderRoom(tracked) \in rooms[TrackSocket]
  /\ tconn = "none" => TrackSocket \notin connected /\ rooms[TrackSocket] = {}
  /\ \A room \in rooms[TrackSocket] : tracked # 0 => room = OrderRoom(tracked)

C28_Step ==
  /\ (tconn \in {"opening", "down"} /\ tconn' = "up") =>
       tqueue' = Append(tqueue, <<"join-order-room", tracked>>)
  /\ (tracked # 0 /\ tracked' = 0 /\ tconn = "up") =>
       /\ tqueue' = Append(tqueue, <<"leave-order-room", tracked>>)
       /\ tconn' = "closing"
  /\ (tracked # 0 /\ tracked' = tracked /\ shown' # shown) =>
       /\ tseen' = tseen + 1
       /\ published[received[TrackSocket][tseen']][2].orderId = tracked
       /\ shown' = published[received[TrackSocket][tseen']][2].status

EventsOf(k) == SelectSeq(published, LAMBDA e : e[1] = OrderRoom(k))

\* C29: when no status update is in flight, the last orderUpdate event
\* published about an order carries the status the order has in the store.
C29_LastEventIsStatus ==
  (\A u \in Admins : ureq[u].pc \in {"idle", "done"}) =>
    \A k \in 1..Len(orders) :
      EventsOf(k) # <<>> =>
        EventsOf(k)[Len(EventsOf(k))][2].status = orders[k].status

\* C30: reconnectAttempts never exceeds maxReconnectAttempts, and
\* isConnected implies that the manager has a socket.
C30_ManagerInvariant ==
  /\ reconnectAttempts <= maxReconnectAttempts
  /\ isConnected => socket # "null"

====
